---- MODULE Spec2Model ----
(***************************************************************************)
(* Model of the background service worker of the S3 Lens Unity Catalog     *)
(* viewer (src/background.js): the message handler, the resolution cache   *)
(* kept in chrome.storage.local, the typed resolver and the submit/poll    *)
(* executor of the SQL Statement API.  Every `await` of the code is a      *)
(* point where another handler may run, so each action below is the code   *)
(* between two awaits of one handler.                                      *)
(***************************************************************************)
EXTENDS Integers, Sequences, FiniteSets, TLC

(***************************************************************************)
(* Bounds of the model.                                                    *)
(***************************************************************************)
\* how many lookupUuids messages are delivered in one behaviour
MaxLookups == 2
\* the same, when two handlers run concurrently
MaxConcurrentLookups == 3
\* how many times the clock advances (by half a TTL each time)
MaxTicks == 2
MaxExecutorLookups == 1
MaxFetches == 3

(***************************************************************************)
(* Characters and identifier tokens.  A token is the sequence of its       *)
(* characters, so that the shape test and the case conversion are computed *)
(* on the characters as the code computes them.                            *)
(***************************************************************************)
UpperChars == <<"A", "B", "C", "D", "E", "F", "O", "R">>
LowerChars == <<"a", "b", "c", "d", "e", "f", "o", "r">>

\* String.prototype.toLowerCase, one character
ToLowerChar(c) ==
  IF \E i \in 1..Len(UpperChars) : UpperChars[i] = c
    THEN LowerChars[CHOOSE i \in 1..Len(UpperChars) : UpperChars[i] = c]
    ELSE c

\* String.prototype.toLowerCase
ToLowerCase(s) == [i \in 1..Len(s) |-> ToLowerChar(s[i])]

\* the character class [0-9a-f]
HexLower == {"0", "1", "2", "3", "4", "5", "6", "7", "8", "9",
             "a", "b", "c", "d", "e", "f"}

\* the positions of the hyphens of the 8-4-4-4-12 shape
HyphenAt == {9, 14, 19, 24}

\* the pattern without its end anchor
UUID_RE_NoEndAnchor(s) ==
  /\ Len(s) >= 36
  /\ \A i \in 1..36 : IF i \in HyphenAt THEN s[i] = "-" ELSE s[i] \in HexLower

\* /^[0-9a-f]{8}-[0-9a-f]{4}-[0-9a-f]{4}-[0-9a-f]{4}-[0-9a-f]{12}$/.test(s)
UUID_RE(s) ==
  /\ Len(s) = 36
  /\ \A i \in 1..36 : IF i \in HyphenAt THEN s[i] = "-" ELSE s[i] \in HexLower

Rep(c, n) == [i \in 1..n |-> c]

\* the token made of one repeated character, in the 8-4-4-4-12 layout
UuidOf(c) ==
  Rep(c, 8) \o <<"-">> \o Rep(c, 4) \o <<"-">> \o Rep(c, 4) \o <<"-">>
    \o Rep(c, 4) \o <<"-">> \o Rep(c, 12)

UuidA == UuidOf("a")
Uuid7 == UuidOf("7")
\* the same token as UuidA, as a page may spell it
UuidUpperA == UuidOf("A")
\* right length and hyphens, but not hexadecimal
NonHex == UuidOf("g")
\* a canonical token followed by a quote and more SQL
Injection == UuidA \o <<"'", " ", "O", "R", " ", "'", "1", "'", "=", "'", "1">>

Item(u, t) == [uuid |-> u, type |-> t]

\* the `uuids` arrays of the lookupUuids messages the model delivers
Requests ==
  { <<>>,
    <<Item(UuidA, "table")>>,
    <<Item(UuidUpperA, "table"), Item(Uuid7, "catalog")>>,
    <<Item(UuidA, "schema"), Item(Uuid7, "schema")>>,
    <<Item(Injection, "table"), Item(Uuid7, "table"), Item(UuidA, "table")>>,
    <<Item(NonHex, "catalog"), Item(Uuid7, "volume")>> }

\* the messages of two pages that show one path each
ConcurrentRequests ==
  { <<Item(UuidA, "table")>>,
    <<Item(Uuid7, "schema")>> }

(***************************************************************************)
(* Time.                                                                   *)
(***************************************************************************)
CACHE_TTL_MS == 24 * 60 * 60 * 1000
\* the clock of the model advances in steps of half a TTL
TickMs == CACHE_TTL_MS \div 2
\* the first and the last value of the clock
Epoch == CACHE_TTL_MS
LastTime == Epoch + MaxTicks * TickMs

EmptyMap == [k \in {} |-> 0]
NoError == <<>>

\* the concurrent invocations of handleMessage the model follows
Handlers == {"h1", "h2"}

VARIABLES
  uuidCache,       \* chrome.storage.local: uuidCache (absent is {})
  cacheUpdatedAt,  \* chrome.storage.local: cacheUpdatedAt, "null" when unset
  settings,        \* chrome.storage.local: workspaceUrl, warehouseId, patToken
  now,             \* the last value Date.now() returned
  lookups,         \* lookupUuids messages delivered so far
  pc,              \* where each handler invocation is suspended
  typedUuids,      \* handleMessage: typedUuids
  cached,          \* handleMessage: cached
  uncached,        \* handleMessage: uncached
  results,         \* resolveUuids: results (freshResults once it returned)
  qi,              \* resolveUuids: index of the query being executed
  data,            \* executeSql: data, the body of the last response, while
                   \* the poll loop runs
  snapshot,        \* updateCache: the uuidCache it read
  response,        \* what sendResponse was called with
  qlog,            \* history: the executeSql calls of the current lookup
  resolved,        \* history: the last entry a completed updateCache merged
                   \* for each id, since the last clearCache
  known,           \* history: the misses of this lookup's split that `resolved`
                   \* holds with an age under the TTL
  tracing,         \* whether the responses of the fetches are recorded
  fetches,         \* history, when tracing: for each executeSql call of the
                   \* current lookup, the responses its fetches got, in order
  dom,             \* content script's page: the path spans in the document
  annotated,       \* the spans that carry data-s3-lens-annotated
  badges,          \* the number of badges inserted for each span
  scanInProgress,  \* content.js: scanInProgress
  scanTimeout,     \* content.js: whether the timer of scanTimeout is pending
  scans,           \* the scan bodies suspended on sendMessage, each with its
                   \* `elements` and the uuids it sent
  seen,            \* history: the spans findUnityElements has collected
  skipped          \* history: a call of scan() returned because another
                   \* scan was in progress

storageVars == <<uuidCache, cacheUpdatedAt, settings>>
handlerVars == <<pc, typedUuids, cached, uncached, results, qi, data, snapshot,
                 response>>
historyVars == <<qlog, resolved, known>>
traceVars == <<tracing, fetches>>
contentVars == <<dom, annotated, badges, scanInProgress, scanTimeout, scans,
                 seen, skipped>>
vars == <<uuidCache, cacheUpdatedAt, settings, now, lookups, pc, typedUuids,
          cached, uncached, results, qi, data, snapshot, response, qlog,
          resolved, known, tracing, fetches, dom, annotated, badges,
          scanInProgress, scanTimeout, scans, seen, skipped>>

(***************************************************************************)
(* Small helpers on maps (JavaScript objects used as maps).                *)
(***************************************************************************)
\* obj[k] = v
Put(m, k, v) == [x \in (DOMAIN m) \cup {k} |-> IF x = k THEN v ELSE m[x]]

\* { ...a, ...b }
Spread(a, b) ==
  [x \in (DOMAIN a) \cup (DOMAIN b) |-> IF x \in DOMAIN b THEN b[x] ELSE a[x]]

\* the elements of a sequence
Range(s) == {s[i] : i \in 1..Len(s)}

(***************************************************************************)
(* Cache management: getCachedResults and updateCache.                     *)
(***************************************************************************)
\* Date.now(): the clock has not gone back since it was last read
DateNow == {t \in {now + k * TickMs : k \in 0..MaxTicks} : t <= LastTime}

\* the test of getCachedResults on one item, `<=` in place of `<`
IsHit_Inclusive(item, cache, t) ==
  LET key == ToLowerCase(item.uuid)
  IN  /\ key \in DOMAIN cache
      /\ t - cache[key].cachedAt <= CACHE_TTL_MS

\* entry && now - entry.cachedAt < CACHE_TTL_MS
IsHit(item, cache, t) ==
  LET key == ToLowerCase(item.uuid)
  IN  /\ key \in DOMAIN cache
      /\ t - cache[key].cachedAt < CACHE_TTL_MS

\* getCachedResults that forgets the items whose entry has expired
GetCachedResults_DropExpired(tu, cache, t) ==
  [cached |->
     [k \in {ToLowerCase(tu[i].uuid) :
               i \in {j \in 1..Len(tu) : IsHit(tu[j], cache, t)}}
        |-> cache[k].data],
   uncached |->
     SelectSeq(tu, LAMBDA item : ToLowerCase(item.uuid) \notin DOMAIN cache)]

\* getCachedResults, on the uuidCache it read and the time it took
GetCachedResults(tu, cache, t) ==
  [cached |->
     [k \in {ToLowerCase(tu[i].uuid) :
               i \in {j \in 1..Len(tu) : IsHit(tu[j], cache, t)}}
        |-> cache[k].data],
   uncached |-> SelectSeq(tu, LAMBDA item : ~IsHit(item, cache, t))]

\* an updateCache that keeps the entry an id already has
MergeInto_KeepExisting(cache, newResults, t) ==
  [k \in (DOMAIN cache) \cup (DOMAIN newResults) |->
     IF k \in DOMAIN cache
       THEN cache[k]
       ELSE [data |-> newResults[k], cachedAt |-> t]]

\* the loop of updateCache: uuidCache[uuid] = { data, cachedAt: now }
MergeInto(cache, newResults, t) ==
  [k \in (DOMAIN cache) \cup (DOMAIN newResults) |->
     IF k \in DOMAIN newResults
       THEN [data |-> newResults[k], cachedAt |-> t]
       ELSE cache[k]]

(***************************************************************************)
(* UUID resolution: the synchronous parts of resolveUuids.                 *)
(***************************************************************************)
\* typedUuids.filter((u) => UUID_RE.test(u.uuid))
ValidUuids(tu) == SelectSeq(tu, LAMBDA u : UUID_RE(u.uuid))

\* validUuids.filter((u) => u.type === t)
OfType(valid, t) == SelectSeq(valid, LAMBDA u : u.type = t)

TablesPrefix == <<"t", "a", "b", "l", "e", "s", "/">>

\* A statement is modelled by its kind and by the texts the code interpolates
\* into it: 'tables/<uuid>' for each table id, the uuid for the other kinds.
TableSql(tableUuids) ==
  [kind |-> "table",
   tokens |-> [i \in 1..Len(tableUuids) |-> TablesPrefix \o tableUuids[i].uuid]]

SchemaSql(uuid) == [kind |-> "schema", tokens |-> <<uuid>>]

CatalogSql(uuid) == [kind |-> "catalog", tokens |-> <<uuid>>]

\* resolveUuids that resolves the catalogs first and the table batch last
Queries_CatalogsFirst(tu) ==
  LET valid == ValidUuids(tu)
      tableUuids == OfType(valid, "table")
      schemaUuids == OfType(valid, "schema")
      catalogUuids == OfType(valid, "catalog")
  IN  [i \in 1..Len(catalogUuids) |-> CatalogSql(catalogUuids[i].uuid)]
        \o [i \in 1..Len(schemaUuids) |-> SchemaSql(schemaUuids[i].uuid)]
        \o (IF Len(tableUuids) > 0 THEN <<TableSql(tableUuids)>> ELSE <<>>)

\* resolveUuids that issues one statement for each table id
Queries_PerTable(tu) ==
  LET valid == ValidUuids(tu)
      tableUuids == OfType(valid, "table")
      schemaUuids == OfType(valid, "schema")
      catalogUuids == OfType(valid, "catalog")
  IN  [i \in 1..Len(tableUuids) |-> TableSql(<<tableUuids[i]>>)]
        \o [i \in 1..Len(schemaUuids) |-> SchemaSql(schemaUuids[i].uuid)]
        \o [i \in 1..Len(catalogUuids) |-> CatalogSql(catalogUuids[i].uuid)]

\* the executeSql calls of resolveUuids, in the order it makes them
Queries(tu) ==
  LET valid == ValidUuids(tu)
      tableUuids == OfType(valid, "table")
      schemaUuids == OfType(valid, "schema")
      catalogUuids == OfType(valid, "catalog")
  IN  (IF Len(tableUuids) > 0 THEN <<TableSql(tableUuids)>> ELSE <<>>)
        \o [i \in 1..Len(schemaUuids) |-> SchemaSql(schemaUuids[i].uuid)]
        \o [i \in 1..Len(catalogUuids) |-> CatalogSql(catalogUuids[i].uuid)]

\* `${a}.${b}`
DotJoin(segments) ==
  [i \in 1..(2 * Len(segments) - 1) |->
     IF i % 2 = 1 THEN segments[(i + 1) \div 2] ELSE "."]

\* subDir.replace("tables/", "")
StripTables(subDir) ==
  IF Len(subDir) >= Len(TablesPrefix)
     /\ SubSeq(subDir, 1, Len(TablesPrefix)) = TablesPrefix
    THEN SubSeq(subDir, Len(TablesPrefix) + 1, Len(subDir))
    ELSE subDir

\* for (const row of result.result.data_array) results[uuid] = {...}
RECURSIVE MapTableRows(_, _)
MapTableRows(res, rows) ==
  IF rows = <<>> THEN res
  ELSE LET row == Head(rows)
           uuid == ToLowerCase(StripTables(row[4]))
       IN  MapTableRows(
             Put(res, uuid,
                 [type |-> "table",
                  fullName |-> DotJoin(<<row[1], row[2], row[3]>>)]),
             Tail(rows))

\* resolveUuids that records an identifier without a row under an empty name
MapRows_EmptyName(res, sql, result) ==
  IF sql.kind = "table"
    THEN IF result.hasData THEN MapTableRows(res, result.data_array) ELSE res
    ELSE Put(res, sql.tokens[1], [type |-> sql.kind, fullName |-> <<>>])

\* what resolveUuids does with the value executeSql returned for a query
MapRows(res, sql, result) ==
  IF sql.kind = "table"
    THEN IF result.hasData THEN MapTableRows(res, result.data_array) ELSE res
  ELSE IF result.hasData /\ Len(result.data_array) > 0
    THEN LET row == result.data_array[1]
         IN  IF sql.kind = "schema"
               THEN Put(res, sql.tokens[1],
                        [type |-> "schema",
                         fullName |-> DotJoin(<<row[1], row[2]>>)])
               ELSE Put(res, sql.tokens[1],
                        [type |-> "catalog", fullName |-> DotJoin(<<row[1]>>)])
  ELSE res

(***************************************************************************)
(* The remote endpoint, as executeSql and resolveUuids consume it.  A      *)
(* response is {ok, status.state, status.error.message, result.data_array},*)
(* with state "none" when the response has no status and hasData FALSE     *)
(* when it has no result.                                                  *)
(***************************************************************************)
\* the names the remote catalog gives to an identifier
RemoteName(u) == IF u = UuidA THEN "alpha" ELSE "seven"

\* [table_catalog, table_schema, table_name, storage_sub_directory]
TableRow(subDir) == <<"main", "sales", RemoteName(StripTables(subDir)), subDir>>

\* [table_catalog, table_schema]
SchemaRow(u) == <<"main", RemoteName(u)>>

\* [table_catalog]
CatalogRow(u) == <<RemoteName(u)>>

\* the elements of a sequence at the indices of S, in order
RECURSIVE PickFrom(_, _, _)
PickFrom(seq, S, i) ==
  IF i > Len(seq) THEN <<>>
  ELSE (IF i \in S THEN <<seq[i]>> ELSE <<>>) \o PickFrom(seq, S, i + 1)

\* the row sets a statement may produce: any of the rows it asks for
RowSets(sql) ==
  IF sql.kind = "table"
    THEN {[i \in 1..Len(PickFrom(sql.tokens, S, 1)) |->
             TableRow(PickFrom(sql.tokens, S, 1)[i])] :
            S \in SUBSET (1..Len(sql.tokens))}
  ELSE IF sql.kind = "schema"
    THEN {<<>>, <<SchemaRow(sql.tokens[1])>>}
  ELSE {<<>>, <<CatalogRow(sql.tokens[1])>>}

\* every row a statement asks for
AllRows(sql) ==
  IF sql.kind = "table"
    THEN [i \in 1..Len(sql.tokens) |-> TableRow(sql.tokens[i])]
  ELSE IF sql.kind = "schema" THEN <<SchemaRow(sql.tokens[1])>>
  ELSE <<CatalogRow(sql.tokens[1])>>

\* a response that is not 2xx
HttpError ==
  [ok |-> FALSE, state |-> "none", message |-> "", hasData |-> FALSE,
   data_array |-> <<>>]

\* the responses a fetch of executeSql may get for a statement
Responses(sql) ==
  {HttpError}
    \cup {[ok |-> TRUE, state |-> st, message |-> "", hasData |-> FALSE,
           data_array |-> <<>>] :
            st \in {"PENDING", "RUNNING", "CANCELED", "none"}}
    \cup {[ok |-> TRUE, state |-> st, message |-> "", hasData |-> TRUE,
           data_array |-> AllRows(sql)] : st \in {"PENDING", "RUNNING"}}
    \cup {[ok |-> TRUE, state |-> "FAILED", message |-> "x", hasData |-> FALSE,
           data_array |-> <<>>]}
    \cup {[ok |-> TRUE, state |-> "SUCCEEDED", message |-> "", hasData |-> TRUE,
           data_array |-> rows] : rows \in RowSets(sql)}

(***************************************************************************)
(* executeSql: what the code does with one response of a fetch.  `phase`   *)
(* is "submit" for the POST and "poll" for a GET of the poll loop.         *)
(***************************************************************************)
SubmitFailed == <<"SQL submit failed">>
PollFailed == <<"SQL poll failed">>
SqlFailed(errMsg) == <<"SQL failed: ", errMsg>>

\* executeSql before its first response: no data yet
NoData ==
  [ok |-> TRUE, state |-> "none", message |-> "", hasData |-> FALSE,
   data_array |-> <<>>]

\* executeSql that returns the first body that held rows
Returned_Earlier(prev, r) == IF prev.hasData THEN prev ELSE r

\* data = await pollResp.json() ... return data: the body of the response
\* that ended the loop replaces the one before it
Returned(prev, r) == r

\* executeSql that polls again after a poll that is not 2xx
ExecuteSqlStep_RetryPoll(r, phase) ==
  IF ~r.ok /\ phase = "submit"
    THEN [kind |-> "throw", message |-> SubmitFailed]
  ELSE IF ~r.ok \/ r.state \in {"PENDING", "RUNNING"}
    THEN [kind |-> "wait", message |-> NoError]
  ELSE IF r.state = "FAILED"
    THEN [kind |-> "throw", message |-> SqlFailed(r.message)]
  ELSE [kind |-> "return", message |-> NoError]

\* executeSql whose loop is an if: one poll, then whatever came is final
ExecuteSqlStep_PollOnce(r, phase) ==
  IF ~r.ok
    THEN [kind |-> "throw",
          message |-> IF phase = "submit" THEN SubmitFailed ELSE PollFailed]
  ELSE IF r.state \in {"PENDING", "RUNNING"} /\ phase = "submit"
    THEN [kind |-> "wait", message |-> NoError]
  ELSE IF r.state = "FAILED"
    THEN [kind |-> "throw", message |-> SqlFailed(r.message)]
  ELSE [kind |-> "return", message |-> NoError]

ExecuteSqlStep(r, phase) ==
  IF ~r.ok
    THEN [kind |-> "throw",
          message |-> IF phase = "submit" THEN SubmitFailed ELSE PollFailed]
  ELSE IF r.state \in {"PENDING", "RUNNING"}
    THEN [kind |-> "wait", message |-> NoError]
  ELSE IF r.state = "FAILED"
    THEN [kind |-> "throw", message |-> SqlFailed(r.message)]
  ELSE [kind |-> "return", message |-> NoError]

(***************************************************************************)
(* The responses of handleMessage.                                         *)
(***************************************************************************)
NoResponse == [sent |-> FALSE, hasMatches |-> FALSE, matches |-> EmptyMap,
               error |-> NoError]

\* { matches }
Matches(m) == [sent |-> TRUE, hasMatches |-> TRUE, matches |-> m,
               error |-> NoError]

\* { matches, error }
MatchesAndError(m, e) == [sent |-> TRUE, hasMatches |-> TRUE, matches |-> m,
                          error |-> e]

\* { error: err.message }, from the catch of the listener
ErrorOnly(e) == [sent |-> TRUE, hasMatches |-> FALSE, matches |-> EmptyMap,
                 error |-> e]

NoPatError == <<"No PAT token configured">>
StorageError == <<"storage error">>

Null == <<>>

(***************************************************************************)
(* content.js: the content script of the Storage Lens page.  The text of a *)
(* span is the sequence of its characters, so that the search of the       *)
(* marker, the split on "/" and the cleaning of an identifier are computed *)
(* on the characters as the code computes them.                            *)
(***************************************************************************)
UnityStorage ==
  <<"_", "_", "u", "n", "i", "t", "y", "s", "t", "o", "r", "a", "g", "e">>
SchemasWord == <<"s", "c", "h", "e", "m", "a", "s">>
TablesWord == <<"t", "a", "b", "l", "e", "s">>
CatalogsWord == <<"c", "a", "t", "a", "l", "o", "g", "s">>
BucketWord == <<"s", "3", ":", "/", "/", "b">>

\* the segments joined by "/"
RECURSIVE JoinPath(_)
JoinPath(segments) ==
  IF Len(segments) = 0 THEN <<>>
  ELSE IF Len(segments) = 1 THEN segments[1]
  ELSE segments[1] \o <<"/">> \o JoinPath(Tail(segments))

\* const UUID_PATTERN: the same pattern as UUID_RE of background.js
UUID_PATTERN(s) ==
  /\ Len(s) = 36
  /\ \A i \in 1..36 : IF i \in HyphenAt THEN s[i] = "-" ELSE s[i] \in HexLower

\* String.prototype.indexOf, counted from 1; 0 when pat does not occur
IndexOf(text, pat) ==
  LET starts == {i \in 1..(Len(text) - Len(pat) + 1) :
                   SubSeq(text, i, i + Len(pat) - 1) = pat}
  IN IF starts = {} THEN 0
     ELSE CHOOSE i \in starts : \A j \in starts : i <= j

\* String.prototype.split("/")
RECURSIVE SplitPath(_)
SplitPath(s) ==
  LET i == IndexOf(s, <<"/">>)
  IN IF i = 0 THEN <<s>>
     ELSE <<SubSeq(s, 1, i - 1)>> \o SplitPath(SubSeq(s, i + 1, Len(s)))

\* uuid.replace(/[^0-9a-f-]/gi, "").toLowerCase()
CleanUuid(uuid) ==
  LET Kept(c) == ToLowerChar(c) \in HexLower \cup {"-"}
  IN ToLowerCase(SelectSeq(uuid, Kept))

\* the loop of parseUnityPath from the segment at index i (counted from 0)
RECURSIVE ParseFrom(_, _)
ParseFrom(segments, i) ==
  IF ~(i < Len(segments)) THEN <<>>
  ELSE LET kind == segments[i + 1]
           uuid == IF i + 1 < Len(segments) THEN segments[i + 2] ELSE <<>>
           cleanUuid == CleanUuid(uuid)
           rest == ParseFrom(segments, i + 2)
       IN IF uuid = <<>> THEN rest
          ELSE IF ~UUID_PATTERN(cleanUuid) THEN rest
          ELSE IF kind = TablesWord THEN <<Item(cleanUuid, "table")>> \o rest
          ELSE IF kind = SchemasWord
            THEN <<Item(cleanUuid, "schema")>> \o rest
          ELSE IF kind = CatalogsWord
            THEN <<Item(cleanUuid, "catalog")>> \o rest
          ELSE rest

\* parseUnityPath(text); null is the empty sequence
ParseUnityPath(text) ==
  LET idx == IndexOf(text, UnityStorage \o <<"/">>)
  IN IF idx = 0 THEN Null
     ELSE ParseFrom(SplitPath(SubSeq(text, idx, Len(text))), 1)

TypePriority(type) ==
  IF type = "table" THEN 3
  ELSE IF type = "schema" THEN 2
  ELSE IF type = "catalog" THEN 1
  ELSE 0

\* the spans span.s3-util-word-break-all a page may show
Elements == {"e1", "e2", "e3", "e4", "e5"}

\* span.textContent
TextContent ==
  [e \in Elements |->
     CASE e = "e1" -> JoinPath(<<UnityStorage, SchemasWord, Uuid7,
                                 TablesWord, UuidA>>)
       [] e = "e2" -> JoinPath(<<BucketWord, UnityStorage, CatalogsWord,
                                 Uuid7>>)
       [] e = "e3" -> JoinPath(<<UnityStorage, TablesWord, UuidUpperA>>)
       [] e = "e4" -> JoinPath(<<UnityStorage, SchemasWord>>)
       [] OTHER    -> JoinPath(<<BucketWord, TablesWord, UuidA>>)]

\* parseUnityPath(text) of each span
Parsed == [e \in Elements |-> ParseUnityPath(TextContent[e])]

\* the pages the content script may be loaded on
InitialPages == {{}, {"e1"}, {"e4", "e5"}}

\* findUnityElements without the test of the attribute
FindUnityElements_All(spans, marked) ==
  LET elements == {e \in spans :
                     /\ IndexOf(TextContent[e], UnityStorage) # 0
                     /\ Parsed[e] # Null}
      entries == UNION {Range(Parsed[e]) : e \in elements}
      TypeOf(u) ==
        LET types == {x.type : x \in {y \in entries : y.uuid = u}}
        IN CHOOSE t \in types :
             \A s \in types : TypePriority(s) <= TypePriority(t)
  IN [elements |-> elements,
      typedUuids |-> [u \in {x.uuid : x \in entries} |-> TypeOf(u)]]

\* findUnityElements(), on the spans of the document and the spans that
\* carry the attribute; `elements` is a set, each span with Parsed[span]
FindUnityElements(spans, marked) ==
  LET elements == {e \in spans :
                     /\ e \notin marked
                     /\ IndexOf(TextContent[e], UnityStorage) # 0
                     /\ Parsed[e] # Null}
      entries == UNION {Range(Parsed[e]) : e \in elements}
      TypeOf(u) ==
        LET types == {x.type : x \in {y \in entries : y.uuid = u}}
        IN CHOOSE t \in types :
             \A s \in types : TypePriority(s) <= TypePriority(t)
  IN [elements |-> elements,
      typedUuids |-> [u \in {x.uuid : x \in entries} |-> TypeOf(u)]]

\* the best match of annotateElements for one element: the first resolved
\* entry of `parsed` with the highest priority; Null when none is resolved
BestMatch(parsed, matchMap) ==
  LET hits == {i \in 1..Len(parsed) : parsed[i].uuid \in DOMAIN matchMap}
      Pr(i) == TypePriority(matchMap[parsed[i].uuid].type)
  IN IF hits = {} THEN Null
     ELSE LET best == CHOOSE i \in hits :
                        /\ \A j \in hits : Pr(j) <= Pr(i)
                        /\ \A j \in hits : j < i => Pr(j) < Pr(i)
          IN <<matchMap[parsed[best].uuid]>>

\* the spans annotateElements(elements, matchMap) gives a badge
Badged(elements, matchMap, marked) ==
  {e \in elements : e \notin marked /\ BestMatch(Parsed[e], matchMap) # Null}

\* annotateElements(elements, matchMap): the badges after it
AnnotateElements(elements, matchMap, marked, bdg) ==
  [e \in Elements |->
     IF e \in Badged(elements, matchMap, marked)
       THEN bdg[e] \o BestMatch(Parsed[e], matchMap)
       ELSE bdg[e]]

NoBadges == [e \in Elements |-> <<>>]

\* what scan() awaits: the elements it collected and the identifiers sent
Awaiting(f) == [elements |-> f.elements, uuids |-> f.typedUuids]

\* the content script after its top level ran on a page showing `page`: the
\* initial scan() is suspended on sendMessage when it collected an element,
\* the observer is active and no timer is pending
Loaded(page) ==
  LET f == FindUnityElements(page, {})
  IN /\ dom = page
     /\ annotated = {}
     /\ badges = NoBadges
     /\ scanTimeout = FALSE
     /\ seen = f.elements
     /\ skipped = FALSE
     /\ IF f.elements = {} \/ DOMAIN f.typedUuids = {}
          THEN scanInProgress = FALSE /\ scans = <<>>
          ELSE scanInProgress = TRUE /\ scans = <<Awaiting(f)>>

\* the content script loaded on a page that shows no span
ContentLoaded == Loaded({})

(***************************************************************************)
(* Initial state: an empty chrome.storage.local and no handler running.    *)
(***************************************************************************)
Init ==
  /\ uuidCache = EmptyMap
  /\ cacheUpdatedAt = Null
  /\ settings = [workspaceUrl |-> <<>>, warehouseId |-> "", patToken |-> ""]
  /\ now = Epoch
  /\ lookups = 0
  /\ pc = [p \in Handlers |-> "idle"]
  /\ typedUuids = [p \in Handlers |-> <<>>]
  /\ cached = [p \in Handlers |-> EmptyMap]
  /\ uncached = [p \in Handlers |-> <<>>]
  /\ results = [p \in Handlers |-> EmptyMap]
  /\ qi = [p \in Handlers |-> 0]
  /\ data = [p \in Handlers |-> NoData]
  /\ snapshot = [p \in Handlers |-> EmptyMap]
  /\ response = [p \in Handlers |-> NoResponse]
  /\ qlog = [p \in Handlers |-> <<>>]
  /\ resolved = EmptyMap
  /\ known = [p \in Handlers |-> {}]
  /\ tracing = FALSE
  /\ fetches = [p \in Handlers |-> <<>>]
  /\ ContentLoaded

(***************************************************************************)
(* handleMessage, action "lookupUuids".                                    *)
(***************************************************************************)
\* (message.uuids || []).map((u) => ({uuid: u.uuid.toLowerCase(), type: u.type}))
Normalize(uuids) ==
  [i \in 1..Len(uuids) |->
     [uuid |-> ToLowerCase(uuids[i].uuid), type |-> uuids[i].type]]

\* the credential test that lets every configuration through
HasToken_Always(config) == TRUE

\* !config.patToken is false
HasToken(config) == config.patToken # ""

\* resolveUuids whose catch blocks rethrow
AfterQuery_Abort(out, last) ==
  IF out.kind = "throw" THEN "abort"
  ELSE IF last THEN "update" ELSE "submit"

\* where resolveUuids goes once an executeSql call has ended: its catch
\* blocks log and fall through to the next statement
AfterQuery(out, last) == IF last THEN "update" ELSE "submit"

\* the listener is called with a lookupUuids message (when fewer than max were
\* delivered); the code runs up to the await of getCachedResults
Receive(p, uuids, max) ==
  /\ pc[p] \in {"idle", "done"}
  /\ lookups < max
  /\ lookups' = lookups + 1
  /\ typedUuids' = [typedUuids EXCEPT ![p] = Normalize(uuids)]
  /\ IF Len(uuids) = 0
       THEN /\ pc' = [pc EXCEPT ![p] = "done"]
            /\ response' = [response EXCEPT ![p] = Matches(EmptyMap)]
       ELSE /\ pc' = [pc EXCEPT ![p] = "split"]
            /\ response' = [response EXCEPT ![p] = NoResponse]
  /\ cached' = [cached EXCEPT ![p] = EmptyMap]
  /\ uncached' = [uncached EXCEPT ![p] = <<>>]
  /\ results' = [results EXCEPT ![p] = EmptyMap]
  /\ qi' = [qi EXCEPT ![p] = 0]
  /\ data' = [data EXCEPT ![p] = NoData]
  /\ fetches' = [fetches EXCEPT ![p] = <<>>]
  /\ UNCHANGED <<tracing, contentVars>>
  /\ snapshot' = [snapshot EXCEPT ![p] = EmptyMap]
  /\ qlog' = [qlog EXCEPT ![p] = <<>>]
  /\ known' = [known EXCEPT ![p] = {}]
  /\ UNCHANGED <<storageVars, now, resolved>>

\* getCachedResults ends: the storage read answers (or fails), the loop runs
Split(p) ==
  /\ pc[p] = "split"
  /\ \E ok \in BOOLEAN, t \in DateNow :
       IF ok
         THEN LET r == GetCachedResults(typedUuids[p], uuidCache, t)
              IN  /\ now' = t
                  /\ cached' = [cached EXCEPT ![p] = r.cached]
                  /\ uncached' = [uncached EXCEPT ![p] = r.uncached]
                  /\ known' =
                       [known EXCEPT
                          ![p] = {id \in {r.uncached[i].uuid : i \in 1..Len(r.uncached)}
                                         \cap DOMAIN resolved :
                                    t - resolved[id].cachedAt < CACHE_TTL_MS}]
                  /\ IF Len(r.uncached) > 0
                       THEN /\ pc' = [pc EXCEPT ![p] = "config"]
                            /\ UNCHANGED response
                       ELSE /\ pc' = [pc EXCEPT ![p] = "done"]
                            /\ response' =
                                 [response EXCEPT
                                    ![p] = Matches(Spread(r.cached, EmptyMap))]
         ELSE /\ pc' = [pc EXCEPT ![p] = "done"]
              /\ response' = [response EXCEPT ![p] = ErrorOnly(StorageError)]
              /\ UNCHANGED <<now, cached, uncached, known>>
  /\ UNCHANGED <<storageVars, lookups, typedUuids, results, qi, data,
                 snapshot, qlog, resolved, traceVars, contentVars>>

\* the identifiers a statement asks for
IdsOf(sql) ==
  IF sql.kind = "table"
    THEN {StripTables(sql.tokens[i]) : i \in 1..Len(sql.tokens)}
    ELSE {sql.tokens[1]}

\* the identifiers the rows of a response are about
RowIds(sql, r) ==
  IF ~r.hasData THEN {}
  ELSE IF sql.kind = "table"
    THEN {StripTables(r.data_array[i][4]) : i \in 1..Len(r.data_array)}
  ELSE IF Len(r.data_array) > 0 THEN {sql.tokens[1]} ELSE {}

\* a history record of one executeSql call of handler p: the statement, how
\* the call ended, the identifiers it returned a row for, and the identifiers
\* of the statement that a completed merge had resolved less than a TTL
\* before the split of this lookup
Call(p, sql) ==
  [sql |-> sql, outcome |-> "pending", message |-> NoError, rowIds |-> {},
   repeated |-> IdsOf(sql) \cap known[p]]

\* getConfig ends: the credential test, then resolveUuids up to its first fetch
Config(p) ==
  /\ pc[p] = "config"
  /\ \E ok \in BOOLEAN :
       IF ~ok
         THEN /\ pc' = [pc EXCEPT ![p] = "done"]
              /\ response' = [response EXCEPT ![p] = ErrorOnly(StorageError)]
              /\ UNCHANGED <<qi, qlog>>
       ELSE IF ~HasToken(settings)
         THEN /\ pc' = [pc EXCEPT ![p] = "done"]
              /\ response' =
                   [response EXCEPT ![p] = MatchesAndError(cached[p], NoPatError)]
              /\ UNCHANGED <<qi, qlog>>
       ELSE IF Len(Queries(uncached[p])) = 0
         THEN /\ pc' = [pc EXCEPT ![p] = "update"]
              /\ UNCHANGED <<response, qi, qlog>>
       ELSE /\ pc' = [pc EXCEPT ![p] = "submit"]
            /\ qi' = [qi EXCEPT ![p] = 1]
            /\ qlog' = [qlog EXCEPT ![p] = <<Call(p, Queries(uncached[p])[1])>>]
            /\ UNCHANGED response
  /\ UNCHANGED <<storageVars, now, lookups, typedUuids, cached, uncached,
                 results, data, snapshot, resolved, known, traceVars, contentVars>>

\* the fetches recorded for the i-th executeSql call of handler p
FetchesOf(p, i) == IF i <= Len(fetches[p]) THEN Len(fetches[p][i]) ELSE 0

\* the record of the fetches with response r added to those of call i
Record(f, i, r) ==
  IF i <= Len(f) THEN [f EXCEPT ![i] = Append(@, r)] ELSE Append(f, <<r>>)

\* a fetch of executeSql answers with r: the poll loop goes on, or the call
\* ends and resolveUuids runs up to its next fetch or returns
Fetched(p, r, phase) ==
  LET qs == Queries(uncached[p])
      sql == qs[qi[p]]
      out == ExecuteSqlStep(r, phase)
      last == qi[p] = Len(qs)
      ret == Returned(data[p], r)
      ended == [qlog[p] EXCEPT
                  ![qi[p]].outcome = out.kind,
                  ![qi[p]].message = out.message,
                  ![qi[p]].rowIds =
                     IF out.kind = "return" THEN RowIds(sql, r) ELSE {}]
  IN  /\ tracing => (out.kind = "wait" => FetchesOf(p, qi[p]) + 1 < MaxFetches)
      /\ fetches' = IF tracing
                      THEN [fetches EXCEPT ![p] = Record(@, qi[p], r)]
                      ELSE fetches
      /\ UNCHANGED <<tracing, contentVars>>
      /\ IF out.kind = "wait"
           THEN /\ pc' = [pc EXCEPT ![p] = "poll"]
                /\ data' = [data EXCEPT ![p] = r]
                /\ UNCHANGED <<results, qi, qlog, response>>
         ELSE /\ data' = [data EXCEPT ![p] = NoData]
              /\ results' =
                   [results EXCEPT
                      ![p] = IF out.kind = "return" THEN MapRows(@, sql, ret) ELSE @]
              /\ IF AfterQuery(out, last) = "submit"
                   THEN /\ pc' = [pc EXCEPT ![p] = "submit"]
                        /\ qi' = [qi EXCEPT ![p] = @ + 1]
                        /\ qlog' = [qlog EXCEPT
                                      ![p] = Append(ended, Call(p, qs[qi[p] + 1]))]
                        /\ UNCHANGED response
                 ELSE IF AfterQuery(out, last) = "update"
                   THEN /\ pc' = [pc EXCEPT ![p] = "update"]
                        /\ qlog' = [qlog EXCEPT ![p] = ended]
                        /\ UNCHANGED <<qi, response>>
                 ELSE /\ pc' = [pc EXCEPT ![p] = "done"]
                      /\ qlog' = [qlog EXCEPT ![p] = ended]
                      /\ response' =
                           [response EXCEPT
                              ![p] = MatchesAndError(cached[p], out.message)]
                      /\ UNCHANGED qi

\* the POST of executeSql answers
SubmitResponse(p) ==
  /\ pc[p] = "submit"
  /\ \E r \in Responses(Queries(uncached[p])[qi[p]]) : Fetched(p, r, "submit")
  /\ UNCHANGED <<storageVars, now, lookups, typedUuids, cached, uncached,
                 snapshot, resolved, known>>

\* a GET of the poll loop of executeSql answers
PollResponse(p) ==
  /\ pc[p] = "poll"
  /\ \E r \in Responses(Queries(uncached[p])[qi[p]]) : Fetched(p, r, "poll")
  /\ UNCHANGED <<storageVars, now, lookups, typedUuids, cached, uncached,
                 snapshot, resolved, known>>

\* updateCache: its getConfig answers (or fails, which the handler catches)
UpdateCacheRead(p) ==
  /\ pc[p] = "update"
  /\ \E ok \in BOOLEAN :
       IF ok
         THEN /\ snapshot' = [snapshot EXCEPT ![p] = uuidCache]
              /\ pc' = [pc EXCEPT ![p] = "write"]
              /\ UNCHANGED response
         ELSE /\ pc' = [pc EXCEPT ![p] = "done"]
              /\ response' =
                   [response EXCEPT
                      ![p] = MatchesAndError(cached[p], StorageError)]
              /\ UNCHANGED snapshot
  /\ UNCHANGED <<storageVars, now, lookups, typedUuids, cached, uncached,
                 results, qi, data, historyVars, traceVars, contentVars>>

\* updateCache: the loop and setStorage (or its failure, which the handler
\* catches), then the return of the handler
UpdateCacheWrite(p) ==
  /\ pc[p] = "write"
  /\ pc' = [pc EXCEPT ![p] = "done"]
  /\ \E ok \in BOOLEAN, t \in DateNow :
       IF ok
         THEN /\ now' = t
              /\ uuidCache' = MergeInto(snapshot[p], results[p], t)
              /\ cacheUpdatedAt' = <<t>>
              /\ response' =
                   [response EXCEPT ![p] = Matches(Spread(cached[p], results[p]))]
              /\ resolved' =
                   [k \in (DOMAIN resolved) \cup (DOMAIN results[p]) |->
                      IF k \in DOMAIN results[p]
                        THEN [data |-> results[p][k], cachedAt |-> t]
                        ELSE resolved[k]]
         ELSE /\ response' =
                   [response EXCEPT
                      ![p] = MatchesAndError(cached[p], StorageError)]
              /\ UNCHANGED <<uuidCache, cacheUpdatedAt, resolved, now>>
  /\ UNCHANGED <<settings, lookups, typedUuids, cached, uncached, results,
                 qi, data, snapshot, qlog, known, traceVars, contentVars>>

(***************************************************************************)
(* handleMessage, actions "clearCache" and "saveConfig".                   *)
(***************************************************************************)
\* a clearCache that writes the defaults of every stored field
ClearCache_Defaults ==
  /\ uuidCache' = EmptyMap
  /\ cacheUpdatedAt' = Null
  /\ settings' = [workspaceUrl |-> <<>>, warehouseId |-> "", patToken |-> ""]
  /\ resolved' = EmptyMap
  /\ known' = [p \in Handlers |-> {}]
  /\ UNCHANGED <<now, lookups, handlerVars, qlog, traceVars, contentVars>>

ClearCache ==
  /\ uuidCache' = EmptyMap
  /\ cacheUpdatedAt' = Null
  /\ resolved' = EmptyMap
  /\ known' = [p \in Handlers |-> {}]
  /\ UNCHANGED <<settings, now, lookups, handlerVars, qlog, traceVars, contentVars>>

\* s.replace(/\/+$/, "")
RECURSIVE StripTrailingSlashes(_)
StripTrailingSlashes(s) ==
  IF Len(s) > 0 /\ s[Len(s)] = "/"
    THEN StripTrailingSlashes(SubSeq(s, 1, Len(s) - 1))
    ELSE s

\* saveConfig messages: the fields they set, and their values.  The first is
\* the popup's; the handler also accepts one that empties the credential.
SaveMessages ==
  { [has |-> {"workspaceUrl", "warehouseId", "patToken"},
     workspaceUrl |-> <<"h", "/", "/">>, warehouseId |-> "wh",
     patToken |-> "dapi"],
    [has |-> {"patToken"},
     workspaceUrl |-> <<>>, warehouseId |-> "", patToken |-> ""] }

SaveConfig(message) ==
  /\ settings' =
       [workspaceUrl |->
          IF "workspaceUrl" \in message.has
            THEN StripTrailingSlashes(message.workspaceUrl)
            ELSE settings.workspaceUrl,
        warehouseId |->
          IF "warehouseId" \in message.has
            THEN message.warehouseId ELSE settings.warehouseId,
        patToken |->
          IF "patToken" \in message.has
            THEN message.patToken ELSE settings.patToken]
  /\ settings' # settings
  /\ UNCHANGED <<uuidCache, cacheUpdatedAt, now, lookups, handlerVars,
                 historyVars, traceVars, contentVars>>

\* One handler invocation at a time: every message is answered before the
\* next one is delivered.
Next ==
  \/ \E uuids \in Requests : Receive("h1", uuids, MaxLookups)
  \/ Split("h1")
  \/ Config("h1")
  \/ SubmitResponse("h1")
  \/ PollResponse("h1")
  \/ UpdateCacheRead("h1")
  \/ UpdateCacheWrite("h1")
  \/ ClearCache
  \/ \E message \in SaveMessages : SaveConfig(message)

Spec == Init /\ [][Next]_vars

\* Two pages send lookupUuids messages to the same service worker: the
\* handlers interleave at their awaits.  The configuration is already saved.
InitConfigured ==
  /\ uuidCache = EmptyMap
  /\ cacheUpdatedAt = Null
  /\ settings = [workspaceUrl |-> <<"h">>, warehouseId |-> "wh",
                 patToken |-> "dapi"]
  /\ now = Epoch
  /\ lookups = 0
  /\ pc = [p \in Handlers |-> "idle"]
  /\ typedUuids = [p \in Handlers |-> <<>>]
  /\ cached = [p \in Handlers |-> EmptyMap]
  /\ uncached = [p \in Handlers |-> <<>>]
  /\ results = [p \in Handlers |-> EmptyMap]
  /\ qi = [p \in Handlers |-> 0]
  /\ data = [p \in Handlers |-> NoData]
  /\ snapshot = [p \in Handlers |-> EmptyMap]
  /\ response = [p \in Handlers |-> NoResponse]
  /\ qlog = [p \in Handlers |-> <<>>]
  /\ resolved = EmptyMap
  /\ known = [p \in Handlers |-> {}]
  /\ tracing = FALSE
  /\ fetches = [p \in Handlers |-> <<>>]
  /\ ContentLoaded

NextConcurrent ==
  \/ \E p \in Handlers : \E uuids \in ConcurrentRequests :
       Receive(p, uuids, MaxConcurrentLookups)
  \/ \E p \in Handlers : Split(p)
  \/ \E p \in Handlers : Config(p)
  \/ \E p \in Handlers : SubmitResponse(p)
  \/ \E p \in Handlers : PollResponse(p)
  \/ \E p \in Handlers : UpdateCacheRead(p)
  \/ \E p \in Handlers : UpdateCacheWrite(p)
  \/ ClearCache

SpecConcurrent == InitConfigured /\ [][NextConcurrent]_vars

\* One page, a configured extension, and the responses of every fetch on
\* record; an executeSql call makes at most MaxFetches fetches.
ExecutorRequests == { <<Item(UuidA, "table")>>, <<Item(Uuid7, "catalog")>> }

InitExecutor ==
  /\ uuidCache = EmptyMap
  /\ cacheUpdatedAt = Null
  /\ settings = [workspaceUrl |-> <<"h">>, warehouseId |-> "wh",
                 patToken |-> "dapi"]
  /\ now = Epoch
  /\ lookups = 0
  /\ pc = [p \in Handlers |-> "idle"]
  /\ typedUuids = [p \in Handlers |-> <<>>]
  /\ cached = [p \in Handlers |-> EmptyMap]
  /\ uncached = [p \in Handlers |-> <<>>]
  /\ results = [p \in Handlers |-> EmptyMap]
  /\ qi = [p \in Handlers |-> 0]
  /\ data = [p \in Handlers |-> NoData]
  /\ snapshot = [p \in Handlers |-> EmptyMap]
  /\ response = [p \in Handlers |-> NoResponse]
  /\ qlog = [p \in Handlers |-> <<>>]
  /\ resolved = EmptyMap
  /\ known = [p \in Handlers |-> {}]
  /\ tracing = TRUE
  /\ fetches = [p \in Handlers |-> <<>>]
  /\ ContentLoaded

NextExecutor ==
  \/ \E uuids \in ExecutorRequests : Receive("h1", uuids, MaxExecutorLookups)
  \/ Split("h1")
  \/ Config("h1")
  \/ SubmitResponse("h1")
  \/ PollResponse("h1")
  \/ UpdateCacheRead("h1")
  \/ UpdateCacheWrite("h1")

SpecExecutor == InitExecutor /\ [][NextExecutor]_vars

(***************************************************************************)
(* Vocabulary of the properties.                                           *)
(***************************************************************************)
\* the canonical lower-case 8-4-4-4-12 hexadecimal shape, said by segments
HexRun(s, from, to) == \A i \in from..to : s[i] \in HexLower

IsCanonical(s) ==
  /\ Len(s) = 8 + 1 + 4 + 1 + 4 + 1 + 4 + 1 + 12
  /\ HexRun(s, 1, 8) /\ s[9] = "-"
  /\ HexRun(s, 10, 13) /\ s[14] = "-"
  /\ HexRun(s, 15, 18) /\ s[19] = "-"
  /\ HexRun(s, 20, 23) /\ s[24] = "-"
  /\ HexRun(s, 25, 36)

KnownTypes == {"table", "schema", "catalog"}

\* the identifiers of a list of items
UuidsOf(items) == {items[i].uuid : i \in 1..Len(items)}

\* the handler has its split: getCachedResults returned to it
HasSplit(p) ==
  \/ pc[p] \in {"config", "submit", "poll", "update", "write"}
  \/ pc[p] = "done" /\ Len(typedUuids[p]) > 0 /\ response[p].hasMatches

\* this step of handler p is a getCachedResults that returned
SplitReturns(p) == pc[p] = "split" /\ HasSplit(p)'

\* resolveUuids of the handler made calls and returned
HasResolved(p) ==
  /\ qlog[p] # <<>>
  /\ pc[p] \in {"update", "write", "done"}

Calls(p) == {qlog[p][i] : i \in 1..Len(qlog[p])}

\* the lookup of handler p ended with a successful merge of what it resolved,
\* and no clearCache ran since that merge
Merged(p) ==
  /\ pc[p] = "done"
  /\ results[p] # EmptyMap
  /\ response[p].hasMatches /\ response[p].error = NoError
  /\ DOMAIN results[p] \subseteq DOMAIN resolved

(***************************************************************************)
(* C1.  Concurrent lookups lose no update: when two lookups that resolved  *)
(* and merged different identifiers have both completed, with no           *)
(* clearCache since their merges, the persisted cache holds the entries of *)
(* both.                                                                   *)
(***************************************************************************)
C1_NoLostUpdate ==
  \A p, q \in Handlers :
    (/\ p # q
     /\ Merged(p) /\ Merged(q)
     /\ (DOMAIN results[p]) \cap (DOMAIN results[q]) = {})
    => \A h \in {p, q} : \A id \in DOMAIN results[h] :
         /\ id \in DOMAIN uuidCache
         /\ uuidCache[id].data = results[h][id]

(***************************************************************************)
(* C2.  A statement that ends FAILED with error.message "x" is surfaced:   *)
(* the response of the lookup that issued it carries an error made of "x". *)
(***************************************************************************)
C2_FailureSurfaced ==
  \A p \in Handlers :
    (/\ pc[p] = "done"
     /\ \E c \in Calls(p) : c.outcome = "throw" /\ c.message = SqlFailed("x"))
    => "x" \in Range(response[p].error)

(***************************************************************************)
(* C3.  Known-good data is never dropped: whatever the outcome of a        *)
(* lookup, every identifier its split classified as a hit is a key of the  *)
(* matches it responds with.                                               *)
(***************************************************************************)
C3_HitsReturned ==
  \A p \in Handlers :
    pc[p] = "done"
    => \A id \in DOMAIN cached[p] :
         response[p].hasMatches /\ id \in DOMAIN response[p].matches

(***************************************************************************)
(* C4.  Injection safety: every text interpolated into a statement passed  *)
(* to executeSql is a token of the canonical lower-case 8-4-4-4-12 shape   *)
(* (after 'tables/' in the table statement); a token that fails the shape  *)
(* reaches no statement, whatever its declared type.                       *)
(***************************************************************************)
C4_InjectionSafety ==
  \A p \in Handlers : \A c \in Calls(p) : \A i \in 1..Len(c.sql.tokens) :
    LET tok == c.sql.tokens[i]
        n == Len(TablesPrefix)
    IN  IF c.sql.kind = "table"
          THEN /\ Len(tok) > n
               /\ SubSeq(tok, 1, n) = TablesPrefix
               /\ IsCanonical(SubSeq(tok, n + 1, Len(tok)))
          ELSE IsCanonical(tok)

\* a lookup that carried a malformed token has issued a statement
C4_Witness ==
  \E p \in Handlers :
    /\ HasResolved(p)
    /\ \E i \in 1..Len(uncached[p]) : ~IsCanonical(uncached[p][i].uuid)

(***************************************************************************)
(* C5.  getCachedResults is a total partition: each requested identifier   *)
(* is either a key of cached or an item of uncached, never both and never  *)
(* neither, and nothing else is in either.                                 *)
(***************************************************************************)
C5_SplitPartition ==
  \A p \in Handlers :
    HasSplit(p)
    => /\ \A i \in 1..Len(typedUuids[p]) :
            ~((typedUuids[p][i].uuid \in DOMAIN cached[p])
                <=> (typedUuids[p][i] \in Range(uncached[p])))
       /\ DOMAIN cached[p] \subseteq UuidsOf(typedUuids[p])
       /\ Range(uncached[p]) \subseteq Range(typedUuids[p])

\* a split of two identifiers, one a hit and the other a miss
C5_Witness ==
  \E p \in Handlers :
    /\ pc[p] = "config"
    /\ Len(typedUuids[p]) = 2
    /\ cached[p] # EmptyMap
    /\ uncached[p] # <<>>

(***************************************************************************)
(* C6.  An identifier is a hit of getCachedResults if and only if the      *)
(* cache read holds an entry for it with now - cachedAt < TTL, now being   *)
(* the time the split takes; with no entry, or an entry of age TTL or      *)
(* more, it is a miss.                                                     *)
(***************************************************************************)
C6_HitIffFresh ==
  [][\A p \in Handlers :
       SplitReturns(p)
       => \A i \in 1..Len(typedUuids[p]) :
            LET id == typedUuids[p][i].uuid
                fresh == /\ id \in DOMAIN uuidCache
                         /\ now' - uuidCache[id].cachedAt < CACHE_TTL_MS
            IN  /\ (id \in DOMAIN cached'[p]) <=> fresh
                /\ (typedUuids[p][i] \in Range(uncached'[p])) <=> ~fresh]_vars

\* a split has reported as a miss an entry whose age is exactly the TTL
C6_Witness ==
  \E p \in Handlers :
    /\ pc[p] = "config"
    /\ \E i \in 1..Len(uncached[p]) :
         /\ uncached[p][i].uuid \in DOMAIN uuidCache
         /\ now - uuidCache[uncached[p][i].uuid].cachedAt = CACHE_TTL_MS

(***************************************************************************)
(* C7.  Round trip: once updateCache has merged an identifier, a           *)
(* getCachedResults for it less than a TTL later, with no clearCache in    *)
(* between, reports it as a hit with the merged value, and not as a miss.  *)
(***************************************************************************)
C7_MergeThenSplit ==
  [][\A p \in Handlers :
       SplitReturns(p)
       => \A i \in 1..Len(typedUuids[p]) :
            LET id == typedUuids[p][i].uuid
            IN  (/\ id \in DOMAIN resolved
                 /\ now' - resolved[id].cachedAt < CACHE_TTL_MS)
                => /\ id \in DOMAIN cached'[p]
                   /\ cached'[p][id] = resolved[id].data
                   /\ typedUuids[p][i] \notin Range(uncached'[p])]_vars

(***************************************************************************)
(* C8.  Repeat lookups are deduplicated: no lookup issues a statement for  *)
(* an identifier that a lookup which had merged and returned resolved less *)
(* than a TTL before this lookup's split (no clearCache in between); and a *)
(* lookup with no miss issues no statement and responds with exactly its   *)
(* hits.                                                                   *)
(***************************************************************************)
C8_NoRepeatQuery ==
  \A p \in Handlers :
    /\ \A c \in Calls(p) : c.repeated = {}
    /\ (pc[p] = "done" /\ HasSplit(p) /\ uncached[p] = <<>>)
       => qlog[p] = <<>> /\ response[p] = Matches(cached[p])

(***************************************************************************)
(* C9.  With misses and no credential in the configuration it reads, the   *)
(* lookup responds with its hits and the explanatory error, issues no      *)
(* statement and leaves the persisted cache as it is.                      *)
(***************************************************************************)
C9_NoCredential ==
  [][\A p \in Handlers :
       (/\ pc[p] = "config" /\ pc'[p] # "config"
        /\ settings.patToken = ""
        /\ response'[p] # ErrorOnly(StorageError))
       => /\ pc'[p] = "done"
          /\ response'[p] = MatchesAndError(cached[p], NoPatError)
          /\ qlog'[p] = <<>>
          /\ uuidCache' = uuidCache
          /\ cacheUpdatedAt' = cacheUpdatedAt]_vars

\* a lookup with a hit and a miss was answered without a credential
C9_Witness ==
  \E p \in Handlers :
    /\ pc[p] = "done"
    /\ response[p] = MatchesAndError(cached[p], NoPatError)
    /\ cached[p] # EmptyMap
    /\ uncached[p] # <<>>
    /\ qlog[p] = <<>>

(***************************************************************************)
(* C10.  Resolution is best-effort: when resolveUuids has returned, every  *)
(* well-formed identifier of a known type was asked for by a statement of  *)
(* its kind, whichever earlier statements failed, and every identifier     *)
(* that a statement returned a row for is in the result map.               *)
(***************************************************************************)
C10_BestEffort ==
  \A p \in Handlers :
    HasResolved(p)
    => /\ \A i \in 1..Len(uncached[p]) :
            (IsCanonical(uncached[p][i].uuid) /\ uncached[p][i].type \in KnownTypes)
            => \E c \in Calls(p) :
                 /\ c.sql.kind = uncached[p][i].type
                 /\ uncached[p][i].uuid \in IdsOf(c.sql)
                 /\ c.outcome \in {"return", "throw"}
       /\ \A c \in Calls(p) : c.rowIds \subseteq DOMAIN results[p]

\* a statement failed, a later one returned a row, and resolveUuids returned
C10_Witness ==
  \E p \in Handlers :
    /\ HasResolved(p)
    /\ \E i, j \in 1..Len(qlog[p]) :
         /\ i < j
         /\ qlog[p][i].outcome = "throw"
         /\ qlog[p][j].outcome = "return"
         /\ qlog[p][j].rowIds # {}
         /\ qlog[p][j].rowIds \subseteq DOMAIN results[p]

(***************************************************************************)
(* C11.  An identifier whose statement returns without a row for it is     *)
(* absent from the matches of the response, and sets no error: when every  *)
(* statement of the lookup returned, the only error the response can carry *)
(* is that of the cache write, and without one the matches are exactly the *)
(* hits and the identifiers a row came back for.                           *)
(***************************************************************************)
C11_ZeroRowsAbsent ==
  \A p \in Handlers :
    (pc[p] = "done" /\ qlog[p] # <<>>)
    => LET rowIds == UNION {c.rowIds : c \in Calls(p)}
       IN  /\ \A c \in Calls(p) :
                c.outcome = "return"
                => \A id \in IdsOf(c.sql) \ rowIds :
                     id \notin DOMAIN response[p].matches
           /\ (\A c \in Calls(p) : c.outcome = "return")
              => /\ response[p].error \in {NoError, StorageError}
                 /\ response[p].error = NoError
                    => DOMAIN response[p].matches
                         = (DOMAIN cached[p]) \cup rowIds

\* a table id and a catalog id were looked up, both statements returned, only
\* the catalog got a row: one match, no error
C11_Witness ==
  \E p \in Handlers :
    /\ pc[p] = "done"
    /\ Len(qlog[p]) = 2
    /\ qlog[p][1].sql.kind = "table" /\ qlog[p][1].outcome = "return"
    /\ qlog[p][1].rowIds = {}
    /\ qlog[p][2].sql.kind = "catalog" /\ qlog[p][2].outcome = "return"
    /\ qlog[p][2].rowIds = {Uuid7}
    /\ response[p].hasMatches /\ response[p].error = NoError
    /\ DOMAIN response[p].matches = {Uuid7}

(***************************************************************************)
(* Vocabulary of the properties on executeSql: the recorded fetches.       *)
(***************************************************************************)
NonTerminal == {"PENDING", "RUNNING"}

\* the executeSql calls of handler p that have fetched, by index
Fetching(p) == 1..Len(fetches[p])

\* the last response call i of handler p got
LastFetch(p, i) == fetches[p][i][Len(fetches[p][i])]

\* call i of handler p has ended
Ended(p, i) == qlog[p][i].outcome # "pending"

\* the identifiers of call i that the result map of handler p holds
ResolvedBy(p, i) == (DOMAIN results[p]) \cap IdsOf(qlog[p][i].sql)

(***************************************************************************)
(* C12.  executeSql returns the body of its final response only: when a    *)
(* call returned on a response in state SUCCEEDED, after any number of     *)
(* PENDING or RUNNING responses, the rows resolveUuids mapped are those of *)
(* that last response, whatever the earlier bodies held.                   *)
(***************************************************************************)
C12_FinalResponseOnly ==
  \A p \in Handlers : \A i \in Fetching(p) :
    (qlog[p][i].outcome = "return" /\ LastFetch(p, i).state = "SUCCEEDED")
    => /\ ResolvedBy(p, i) = RowIds(qlog[p][i].sql, LastFetch(p, i))
       /\ \A k \in 1..(Len(fetches[p][i]) - 1) :
            fetches[p][i][k].state \in NonTerminal

\* PENDING with rows in its body, then RUNNING, then SUCCEEDED with no row:
\* nothing is resolved
C12_Witness ==
  \E p \in Handlers : \E i \in Fetching(p) :
    /\ qlog[p][i].outcome = "return"
    /\ Len(fetches[p][i]) = 3
    /\ fetches[p][i][1].state = "PENDING" /\ fetches[p][i][1].hasData
    /\ fetches[p][i][2].state = "RUNNING"
    /\ fetches[p][i][3].state = "SUCCEEDED"
    /\ fetches[p][i][3].data_array = <<>>
    /\ ResolvedBy(p, i) = {}

(***************************************************************************)
(* C13.  A clearCache step leaves the persisted cache empty and            *)
(* cacheUpdatedAt null, and getCachedResults on an empty cache reports     *)
(* every identifier of every request as a miss; the step leaves            *)
(* workspaceUrl, warehouseId and patToken as they were.                    *)
(***************************************************************************)
\* getCachedResults on an empty cache, for every request and at any time:
\* no hit, every item a miss
AllMissesOnEmpty ==
  \A uuids \in Requests : \A t \in {Epoch, LastTime} :
    LET r == GetCachedResults(Normalize(uuids), EmptyMap, t)
    IN  r.cached = EmptyMap /\ r.uncached = Normalize(uuids)

C13_ClearCache ==
  [][ClearCache
     => /\ uuidCache' = EmptyMap
        /\ cacheUpdatedAt' = Null
        /\ settings' = settings
        /\ AllMissesOnEmpty]_vars

\* a lookup merged what it resolved, the configuration holds a credential,
\* and the stored cache is empty again
C13_Witness ==
  /\ uuidCache = EmptyMap
  /\ cacheUpdatedAt = Null
  /\ settings.patToken # ""
  /\ \E p \in Handlers :
       /\ pc[p] = "done"
       /\ results[p] # EmptyMap
       /\ response[p] = Matches(Spread(cached[p], results[p]))

(***************************************************************************)
(* C14.  executeSql returns only when the last state it observed is        *)
(* SUCCEEDED, and throws the message of the job when it is FAILED: a call  *)
(* that ended on any other 2xx response (another state name, or no status) *)
(* did not return.                                                         *)
(***************************************************************************)
C14_ReturnOnlyOnSucceeded ==
  \A p \in Handlers : \A i \in Fetching(p) :
    /\ qlog[p][i].outcome = "return" => LastFetch(p, i).state = "SUCCEEDED"
    /\ (Ended(p, i) /\ LastFetch(p, i).ok /\ LastFetch(p, i).state = "FAILED")
       => /\ qlog[p][i].outcome = "throw"
          /\ qlog[p][i].message = SqlFailed(LastFetch(p, i).message)

\* handler p gets the response of a fetch of its current executeSql call
FetchStep(p) == pc[p] \in {"submit", "poll"} /\ fetches'[p] # fetches[p]

(***************************************************************************)
(* C15.  The poll loop has no bound of its own: at every fetch of a call,  *)
(* however many came before, the call goes on polling if the response is   *)
(* 2xx with state PENDING or RUNNING, and it ends (returns or throws) if   *)
(* and only if the response is anything else.                              *)
(***************************************************************************)
C15_PollsWhileNonTerminal ==
  [][\A p \in Handlers :
       FetchStep(p)
       => LET i == qi[p]
              r == fetches'[p][i][Len(fetches'[p][i])]
              goesOn == r.ok /\ r.state \in NonTerminal
          IN  /\ goesOn => (pc'[p] = "poll" /\ qlog'[p][i].outcome = "pending")
              /\ ~goesOn => qlog'[p][i].outcome \in {"return", "throw"}]_vars

\* the call is still polling after every fetch the record has room for but
\* one, all of them PENDING or RUNNING
C15_Witness ==
  \E p \in Handlers :
    /\ pc[p] = "poll"
    /\ Len(fetches[p][qi[p]]) = MaxFetches - 1
    /\ \A k \in 1..(MaxFetches - 1) : fetches[p][qi[p]][k].state \in NonTerminal

(***************************************************************************)
(* C16.  A response that is not 2xx is fatal for the call: it is the last  *)
(* response the call gets (none follows a failed submission, none follows  *)
(* a failed poll), the call throws the submit or the poll error, and no    *)
(* row of the call reaches the result map.                                 *)
(***************************************************************************)
C16_NonOkIsFatal ==
  \A p \in Handlers : \A i \in Fetching(p) :
    \A k \in 1..Len(fetches[p][i]) :
      ~fetches[p][i][k].ok
      => /\ k = Len(fetches[p][i])
         /\ qlog[p][i].outcome = "throw"
         /\ qlog[p][i].message = IF k = 1 THEN SubmitFailed ELSE PollFailed
         /\ ResolvedBy(p, i) = {}

\* a poll that is not 2xx, after a PENDING response whose body held rows
C16_Witness ==
  \E p \in Handlers : \E i \in Fetching(p) :
    /\ Len(fetches[p][i]) = 2
    /\ fetches[p][i][1].state = "PENDING" /\ fetches[p][i][1].hasData
    /\ ~fetches[p][i][2].ok
    /\ qlog[p][i].message = PollFailed
    /\ pc[p] = "done"

\* the order of the groups in resolveUuids
GroupRank(kind) == IF kind = "table" THEN 1 ELSE IF kind = "schema" THEN 2 ELSE 3

\* the first position, among the misses of handler p, of an identifier asked
\* for by a statement of the given kind
PosOf(p, kind, id) ==
  CHOOSE i \in 1..Len(uncached[p]) :
    /\ uncached[p][i].uuid = id /\ uncached[p][i].type = kind
    /\ \A j \in 1..(i - 1) :
         ~(uncached[p][j].uuid = id /\ uncached[p][j].type = kind)

\* the misses of handler p that resolveUuids keeps, of the given kind
ValidOf(p, kind) ==
  {i \in 1..Len(uncached[p]) :
     IsCanonical(uncached[p][i].uuid) /\ uncached[p][i].type = kind}

(***************************************************************************)
(* C17.  At all times at most one executeSql call of a lookup is in        *)
(* progress: every call but the last one issued has ended.  The calls are  *)
(* issued in                                                               *)
(* the order table batch, schema ids, catalog ids, and within the schema   *)
(* and the catalog groups in the order of the input.                       *)
(***************************************************************************)
C17_OneQueryAtATime ==
  [](\A p \in Handlers :
        /\ \A i \in 1..(Len(qlog[p]) - 1) : qlog[p][i].outcome \in {"return", "throw"}
        /\ pc[p] \in {"submit", "poll"}
           <=> (qlog[p] # <<>> /\ qlog[p][Len(qlog[p])].outcome = "pending")
        /\ \A i, j \in 1..Len(qlog[p]) :
             i < j
             => LET a == qlog[p][i].sql
                    b == qlog[p][j].sql
                IN  /\ GroupRank(a.kind) <= GroupRank(b.kind)
                    /\ (a.kind = b.kind)
                       => /\ a.kind # "table"
                          /\ PosOf(p, a.kind, a.tokens[1])
                               < PosOf(p, b.kind, b.tokens[1]))

\* a table statement has ended and a catalog statement is in progress
C17_Witness ==
  \E p \in Handlers :
    /\ pc[p] = "poll"
    /\ Len(qlog[p]) = 2
    /\ qlog[p][1].sql.kind = "table" /\ qlog[p][1].outcome = "throw"
    /\ qlog[p][2].sql.kind = "catalog" /\ qlog[p][2].outcome = "pending"

(***************************************************************************)
(* C18.  Always, when resolveUuids has returned it has issued exactly one  *)
(* statement for the table group if the input holds a well-formed table id *)
(* (none otherwise), asking for all of them, and exactly one statement for *)
(* each well-formed schema id and catalog id, whichever statements failed. *)
(***************************************************************************)
C18_OneCallPerGroup ==
  [](\A p \in Handlers :
        HasResolved(p)
        => LET calls(kind) == {i \in 1..Len(qlog[p]) : qlog[p][i].sql.kind = kind}
           IN  /\ Cardinality(calls("table"))
                    = IF ValidOf(p, "table") = {} THEN 0 ELSE 1
               /\ \A i \in calls("table") :
                    IdsOf(qlog[p][i].sql)
                      = {uncached[p][k].uuid : k \in ValidOf(p, "table")}
               /\ \A kind \in {"schema", "catalog"} :
                    /\ Cardinality(calls(kind)) = Cardinality(ValidOf(p, kind))
                    /\ \A k \in ValidOf(p, kind) :
                         Cardinality({i \in calls(kind) :
                                        qlog[p][i].sql.tokens
                                          = <<uncached[p][k].uuid>>}) = 1
               /\ \A i \in 1..Len(qlog[p]) : qlog[p][i].sql.kind \in KnownTypes)

\* one statement for a batch of two table ids, and it failed; another lookup
\* had two schema statements, the first of which failed
C18_Witness ==
  \E p \in Handlers :
    /\ HasResolved(p)
    /\ \/ /\ Len(qlog[p]) = 1
          /\ Cardinality(ValidOf(p, "table")) = 2
          /\ qlog[p][1].outcome = "throw"
       \/ /\ Len(qlog[p]) = 2
          /\ Cardinality(ValidOf(p, "schema")) = 2
          /\ qlog[p][1].outcome = "throw"

\* updateCache of handler p ends with its setStorage done
MergeStep(p) ==
  pc[p] = "write" /\ pc'[p] = "done" /\ response'[p].error = NoError

(***************************************************************************)
(* C19.  updateCache stores, for every id of the fresh results, the entry  *)
(* made of its value and of the time of the merge, whatever entry the map  *)
(* it read held for that id; it stores every other entry of the map it     *)
(* read as it was, and nothing else; and it sets cacheUpdatedAt to the     *)
(* time of the merge.                                                      *)
(***************************************************************************)
C19_MergeOverwrites ==
  [][\A p \in Handlers :
       MergeStep(p)
       => /\ DOMAIN uuidCache' = (DOMAIN snapshot[p]) \cup (DOMAIN results[p])
          /\ \A id \in DOMAIN results[p] :
               uuidCache'[id] = [data |-> results[p][id], cachedAt |-> now']
          /\ \A id \in (DOMAIN snapshot[p]) \ (DOMAIN results[p]) :
               uuidCache'[id] = snapshot[p][id]
          /\ cacheUpdatedAt' = <<now'>>]_vars

\* a merge replaced an older entry of one id and kept the entry of another
C19_Witness ==
  \E p \in Handlers :
    /\ pc[p] = "done"
    /\ response[p].hasMatches /\ response[p].error = NoError
    /\ \E id \in (DOMAIN results[p]) \cap (DOMAIN snapshot[p]) :
         /\ id \in DOMAIN uuidCache
         /\ uuidCache[id].cachedAt > snapshot[p][id].cachedAt
    /\ \E id \in (DOMAIN snapshot[p]) \ (DOMAIN results[p]) :
         /\ id \in DOMAIN uuidCache
         /\ uuidCache[id] = snapshot[p][id]

(***************************************************************************)
(* C20.  Cache entries are created only by successful resolution.  Apart   *)
(* from clearCache, the only step that changes the entries of the stored   *)
(* cache is the merge of a lookup that resolved something; it removes no   *)
(* entry, and every entry it creates or changes is for an identifier that  *)
(* a statement of that lookup returned a row for.  So a lookup that ends   *)
(* with no credential, failed statements or no matching row leaves the     *)
(* entries and their cachedAt as they were.                                *)
(***************************************************************************)
C20_OnlyResolvedCached ==
  [][uuidCache' # uuidCache
     => \/ uuidCache' = EmptyMap /\ cacheUpdatedAt' = Null
        \/ \E p \in Handlers :
             /\ MergeStep(p)
             /\ results[p] # EmptyMap
             /\ DOMAIN uuidCache \subseteq DOMAIN uuidCache'
             /\ \A id \in DOMAIN uuidCache' :
                  (id \notin DOMAIN uuidCache \/ uuidCache'[id] # uuidCache[id])
                  => id \in UNION {c.rowIds : c \in Calls(p)}]_vars

(***************************************************************************)
(* C21.  clearCache is not undone by a lookup in progress: with one lookup *)
(* at a time, so that only clearCache removes entries, the merge of a      *)
(* lookup adds to the stored cache no entry for an identifier the store    *)
(* does not hold, unless a statement of that lookup returned a row for it. *)
(***************************************************************************)
C21_ClearNotUndone ==
  [][\A p \in Handlers :
       MergeStep(p)
       => \A id \in (DOMAIN uuidCache') \ (DOMAIN uuidCache) :
            id \in UNION {c.rowIds : c \in Calls(p)}]_vars

(***************************************************************************)
(* content.js: scan(), the MutationObserver and its debounce timer.  The   *)
(* lookup is the background's: the content script sees only how the        *)
(* promise of sendMessage settles.                                         *)
(***************************************************************************)
backgroundVars == <<storageVars, now, lookups, handlerVars, historyVars,
                    traceVars>>

\* the name a resolved identifier is given
SomeName == <<"n">>

\* how chrome.runtime.sendMessage may settle for the identifiers sent: with
\* a response of handleMessage that resolves some of them, with undefined,
\* or rejected
Settlements(uuids) ==
  LET Maps == {[u \in S |-> [type |-> uuids[u], fullName |-> SomeName]] :
                 S \in SUBSET DOMAIN uuids}
  IN {[fulfilled |-> TRUE, value |-> Matches(m)] : m \in Maps}
       \cup {[fulfilled |-> TRUE, value |-> MatchesAndError(m, SubmitFailed)] :
               m \in Maps}
       \cup {[fulfilled |-> TRUE, value |-> ErrorOnly(NoPatError)],
             [fulfilled |-> TRUE, value |-> NoResponse],
             [fulfilled |-> FALSE, value |-> NoResponse]}

\* scan(), from its call to its first await or its return
Scan ==
  IF scanInProgress
    THEN /\ skipped' = TRUE
         /\ UNCHANGED <<scanInProgress, scans, seen>>
    ELSE LET f == FindUnityElements(dom, annotated)
         IN /\ seen' = seen \cup f.elements
            /\ IF f.elements = {} \/ DOMAIN f.typedUuids = {}
                 THEN scanInProgress' = FALSE /\ scans' = scans
                 ELSE /\ scanInProgress' = TRUE
                      /\ scans' = Append(scans, Awaiting(f))
            /\ UNCHANGED skipped

\* the page inserts the span e; the observer's callback replaces the timer
Mutation(e) ==
  /\ e \notin dom
  /\ dom' = dom \cup {e}
  /\ scanTimeout' = TRUE
  /\ UNCHANGED <<annotated, badges, scanInProgress, scans, seen, skipped>>
  /\ UNCHANGED backgroundVars

\* the timer set by the observer expires and calls scan
TimerFires ==
  /\ scanTimeout
  /\ scanTimeout' = FALSE
  /\ Scan
  /\ UNCHANGED <<dom, annotated, badges>>
  /\ UNCHANGED backgroundVars

\* scan(), from the settlement of sendMessage to its return; a badge that
\* annotateElements inserts is a mutation the observer sees
ScanResume(i, reply) ==
  LET s == scans[i]
      annotate == reply.fulfilled /\ reply.value.sent /\ reply.value.hasMatches
      given == IF annotate
                 THEN Badged(s.elements, reply.value.matches, annotated)
                 ELSE {}
  IN /\ badges' = IF annotate
                    THEN AnnotateElements(s.elements, reply.value.matches,
                                          annotated, badges)
                    ELSE badges
     /\ annotated' = annotated \cup given
     /\ scanTimeout' = (scanTimeout \/ given # {})
     /\ scanInProgress' = FALSE
     /\ scans' = [j \in 1..(Len(scans) - 1) |->
                    IF j < i THEN scans[j] ELSE scans[j + 1]]
     /\ UNCHANGED <<dom, seen, skipped>>
     /\ UNCHANGED backgroundVars

Settle ==
  \E i \in 1..Len(scans) : \E reply \in Settlements(scans[i].uuids) :
    ScanResume(i, reply)

InitContent ==
  /\ uuidCache = EmptyMap
  /\ cacheUpdatedAt = Null
  /\ settings = [workspaceUrl |-> <<"h">>, warehouseId |-> "wh",
                 patToken |-> "dapi"]
  /\ now = Epoch
  /\ lookups = 0
  /\ pc = [p \in Handlers |-> "idle"]
  /\ typedUuids = [p \in Handlers |-> <<>>]
  /\ cached = [p \in Handlers |-> EmptyMap]
  /\ uncached = [p \in Handlers |-> <<>>]
  /\ results = [p \in Handlers |-> EmptyMap]
  /\ qi = [p \in Handlers |-> 0]
  /\ data = [p \in Handlers |-> NoData]
  /\ snapshot = [p \in Handlers |-> EmptyMap]
  /\ response = [p \in Handlers |-> NoResponse]
  /\ qlog = [p \in Handlers |-> <<>>]
  /\ resolved = EmptyMap
  /\ known = [p \in Handlers |-> {}]
  /\ tracing = FALSE
  /\ fetches = [p \in Handlers |-> <<>>]
  /\ \E page \in InitialPages : Loaded(page)

NextContent ==
  \/ \E e \in Elements : Mutation(e)
  \/ TimerFires
  \/ Settle

SpecContent == InitContent /\ [][NextContent]_vars

\* the timer expires once set, and the promise of sendMessage settles; the
\* page is under no obligation to change
SpecContentFair ==
  InitContent /\ [][NextContent]_vars /\ WF_vars(TimerFires) /\ WF_vars(Settle)

(***************************************************************************)
(* Properties of the content script.                                       *)
(***************************************************************************)
\* the spans that carry a resolvable identifier
Resolvable ==
  {e \in Elements :
     IndexOf(TextContent[e], UnityStorage) # 0 /\ Parsed[e] # Null}

(***************************************************************************)
(* C22. No span is left behind: every span without the attribute that      *)
(* carries a resolvable identifier is, once it is in the document,         *)
(* eventually collected by a scan, when the timer expires once set and     *)
(* every sendMessage settles.  In particular a scan the timer calls while  *)
(* another scan awaits its response is not lost, even when the page then   *)
(* stays as it is and the awaiting scan inserts no badge.                  *)
(***************************************************************************)
C22_EventuallyScanned ==
  \A e \in Resolvable : (e \in dom /\ e \notin annotated) ~> (e \in seen)

(***************************************************************************)
(* C23. One scan at a time, one badge per span: at most one body of scan   *)
(* is suspended on sendMessage, and scanInProgress is set exactly while    *)
(* one is, whichever way the earlier scans ended (nothing collected, a     *)
(* response with or without matches, undefined, a rejected promise); a     *)
(* span has exactly one badge when it carries the attribute and none       *)
(* otherwise; and no scan holds among its collected elements a span that   *)
(* carries the attribute, so that a marked span is neither collected nor   *)
(* given a badge again.                                                    *)
(***************************************************************************)
C23_OneScanOneBadge ==
  /\ Len(scans) <= 1
  /\ scanInProgress <=> (Len(scans) = 1)
  /\ \A e \in Elements : Len(badges[e]) = IF e \in annotated THEN 1 ELSE 0
  /\ \A i \in 1..Len(scans) : scans[i].elements \cap annotated = {}

\* a span has its badge, a later scan awaits its response for other spans,
\* and a call of scan has returned because a scan was in progress
C23_Witness ==
  /\ skipped
  /\ \E e \in annotated : Len(badges[e]) = 1
  /\ Len(scans) = 1
  /\ scans[1].elements # {}
  /\ scans[1].elements \subseteq dom \ annotated

====
